---- MODULE Spec2Model ----
(***************************************************************************)
(* Model of idify-react-component (src/src/idify.ts).                      *)
(*                                                                         *)
(* CreateFromFC wraps a component in ClassComponent, whose instances       *)
(* register the handle of their child in the static Map                    *)
(* ClassComponent.refs, keyed by the identifier prop, and returns a Proxy  *)
(* whose get trap resolves `<prefix><id>` reads against that Map.          *)
(*                                                                         *)
(* One wrapped definition is modelled.  Its configuration (prefix, ids) is *)
(* fixed at definition time; the instances are driven by the host          *)
(* framework (attach, prop change, commit of a pending setState, detach)   *)
(* and by external code calling the operations of decorated handles and    *)
(* reading properties of the wrapped definition.                           *)
(***************************************************************************)
EXTENDS Integers, Sequences, FiniteSets, TLC

\* ------------------------------------------------------------------ bounds
MaxInstances == 2
MaxHandles == 3
MaxLogs == 1
MaxRenders == 4

\* the null handle of `node: F | null`
Null == 0

Instances == 1..MaxInstances
Handles == 1..MaxHandles

\* values of the identifier prop; "" stands for an absent or empty prop
IdVals == {"", "a", "IdType"}

\* values of the prefix option; "$" is the default
Prefixes == {"$", "set", ""}

\* values of the ids option: absent, an array, a key/value object
IdsUndefined == [kind |-> "undefined", entries |-> << >>]
IdsArray == [kind |-> "array", entries |-> << <<"0", "a">> >>]
IdsObject == [kind |-> "object", entries |-> << <<"IdType", "a">> >>]
IdsOptions == {IdsUndefined, IdsArray, IdsObject}

\* identifier props that are also names of static members of ClassComponent
StaticNames == {"refs"}

\* the property name the get trap answers before any lookup
ReservedNames == {"setIdType"}

\* the identifier props of the instances of a definition with the empty prefix
BareIds == IdVals \cup StaticNames \cup ReservedNames

\* identifiers external code asks for: those of the instances and one more
ReadIds == IdVals \cup {"c"}

\* property names external code reads on the wrapped definition
ReadProps == {p \o id : p \in Prefixes, id \in ReadIds} \cup {"refs", "name"}

\* property keys that are no strings: a well-known symbol, here under the
\* name its description gives it
SymbolKeys == {"Symbol(Symbol.toStringTag)"}

\* property keys external code reads on the wrapped definition
ReadKeys == ReadProps \cup SymbolKeys

VARIABLES
    prefix,     \* the prefix option
    ids,        \* the ids option
    refs,       \* ClassComponent.refs: a Map, here a function on its keys
    status,     \* per instance: "new", "attached" (in the tree), "torn"
    propId,     \* per instance: this.props[idPropName]
    isMounted,  \* per instance: this.state.isMounted
    node,       \* per instance: the handle of its child (Null: no child)
    deco,       \* decorated handles: handle -> the closure of #registerRef
    used,       \* number of handle objects created so far
    console,    \* number of diagnostics console.error has printed
    renders,    \* number of render() passes so far, counted up to MaxRenders
    held,       \* what external code holds as the wrapped definition W
    d1          \* the definition D1: its ClassComponent.refs and its instance

vars == <<prefix, ids, refs, status, propId, isMounted, node,
          deco, used, console, renders, held, d1>>

\* --------------------------------------------------------------- Map
MapHas(m, k) == k \in DOMAIN m
MapSet(m, k, v) == [x \in (DOMAIN m) \cup {k} |-> IF x = k THEN v ELSE m[x]]
MapDelete(m, k) == [x \in (DOMAIN m) \ {k} |-> m[x]]
MapValues(m) == {m[k] : k \in DOMAIN m}
EmptyMap == [x \in {} |-> Null]

\* --------------------------------------------------------------- values
\* what a property read yields
RefVal(h) == [kind |-> "ref", h |-> h, name |-> ""]
NullVal == [kind |-> "null", h |-> Null, name |-> ""]
UndefinedVal == [kind |-> "undefined", h |-> Null, name |-> ""]
SetIdTypeVal == [kind |-> "setIdType", h |-> Null, name |-> ""]
RefsMapVal == [kind |-> "refsMap", h |-> Null, name |-> ""]
StaticVal(p) == [kind |-> "static", h |-> Null, name |-> p]

\* no value: the read throws a TypeError
TypeErrorVal == [kind |-> "TypeError", h |-> Null, name |-> ""]

Absent(v) == v \in {NullVal, UndefinedVal}

\* --------------------------------------------------------------- strings
\* s.startsWith(p)
StartsWith(s, p) == Len(p) <= Len(s) /\ SubSeq(s, 1, Len(p)) = p

\* a slice that forgets to strip the prefix
SliceKeepsPrefix(s, n) == s

\* s.slice(n)
Slice(s, n) == SubSeq(s, n + 1, Len(s))

\* --------------------------------------------------------------- wrapper
\* a guard that forgets the identifier
RegisterRefSkipsNullOnly(id, n) == n = Null

\* if (!node || !id) return;
RegisterRefSkips(id, n) == n = Null \/ id = ""

\* a registration that keeps the entry an identifier already has
RegisterRefMapKeepsFirst(r, id, n) ==
    IF RegisterRefSkips(id, n) \/ MapHas(r, id) THEN r ELSE MapSet(r, id, n)

\* ClassComponent.refs after #registerRef(n) of an instance whose prop is id
RegisterRefMap(r, id, n) ==
    IF RegisterRefSkips(id, n) THEN r ELSE MapSet(r, id, n)

\* the handles carrying mount, unMount, forceRerender and getParentName after
\* #registerRef(n) of instance i: the closure keeps `this`, `id` and `node`
RegisterRefDeco(d, i, id, n) ==
    IF RegisterRefSkips(id, n) THEN d
    ELSE MapSet(d, n, [owner |-> i, id |-> id])

\* a teardown that leaves the Registry alone
WillUnmountMapKeeps(r, id) == r

\* componentWillUnmount
WillUnmountMap(r, id) == IF id = "" THEN r ELSE MapDelete(r, id)

\* a mount that forgets to re-insert the handle
MountMapForgets(r, h) == r

\* mount: if (node && id) ClassComponent.refs.set(id, refObject)
MountMap(r, h) ==
    IF h # Null /\ deco[h].id # "" THEN MapSet(r, deco[h].id, h) ELSE r

\* an unMount that forgets to remove the entry
UnMountMapForgets(r, h) == r

\* unMount: if (node && id) ClassComponent.refs.delete(id)
UnMountMap(r, h) ==
    IF h # Null /\ deco[h].id # "" THEN MapDelete(r, deco[h].id) ELSE r

\* --------------------------------------------------------------- proxy
\* Array.isArray(ids)
IsArray(o) == o.kind = "array"

\* typeof ids === 'object'
TypeofObject(o) == o.kind \in {"array", "object"}

\* ids.includes(id), for an array
ArrayIncludes(o, id) == \E k \in DOMAIN o.entries : o.entries[k][2] = id

\* the keys of the object in place of its values
ObjectKeys(o) == {o.entries[k][1] : k \in DOMAIN o.entries}

\* Object.values(ids)
ObjectValues(o) == {o.entries[k][2] : k \in DOMAIN o.entries}

\* target[prop]: the static members of ClassComponent
StaticMember(prop) ==
    IF prop = "refs" THEN RefsMapVal
    ELSE IF prop = "name" THEN StaticVal(prop)
    ELSE UndefinedVal

\* ClassComponent.refs.get(id)
RefsGet(id) == IF MapHas(refs, id) THEN RefVal(refs[id]) ELSE UndefinedVal

\* typeof prop === 'symbol'
IsSymbol(prop) == prop \in SymbolKeys

\* a test of the prefix that never takes the empty-prefix path
NoPrefixNever(p) == FALSE

\* if (!prefix)
NoPrefix(p) == p = ""

\* proxyHandler.get: the value returned and the diagnostics logged; a symbol
\* has no startsWith, so with a prefix the call prop.startsWith(prefix) throws
ProxyGet(prop) ==
    IF prop = "setIdType" THEN [val |-> SetIdTypeVal, logs |-> 0]
    ELSE IF NoPrefix(prefix) THEN
        IF RefsGet(prop) = UndefinedVal
        THEN [val |-> StaticMember(prop), logs |-> 0]
        ELSE [val |-> RefsGet(prop), logs |-> 0]
    ELSE IF IsSymbol(prop) THEN [val |-> TypeErrorVal, logs |-> 0]
    ELSE IF ~StartsWith(prop, prefix) THEN [val |-> StaticMember(prop), logs |-> 0]
    ELSE LET id == Slice(prop, Len(prefix)) IN
        IF IsArray(ids) /\ ~ArrayIncludes(ids, id)
        THEN [val |-> UndefinedVal, logs |-> 1]
        ELSE IF TypeofObject(ids) /\ id \notin ObjectValues(ids)
        THEN [val |-> UndefinedVal, logs |-> 1]
        ELSE [val |-> IF RefsGet(id) = UndefinedVal THEN NullVal ELSE RefsGet(id),
              logs |-> 0]

\* what CreateFromFC returns: new Proxy(ClassComponent, proxyHandler)
ProxyComponent == "ProxyComponent"

\* the class behind the proxy
ClassComponent == "ClassComponent"

\* a selector that hands out the class behind the proxy
SetIdTypeCallUnwraps == ClassComponent

\* the call of the value a read of setIdType yields: () => ProxyComponent
SetIdTypeCall == ProxyComponent

\* --------------------------------------------------------------- framework
\* the handle a newly created child exposes: always a new object
Deliverable == IF used < MaxHandles THEN {used + 1} ELSE {}

\* a render() call that is counted twice
RenderPassTwice(c) == IF c + 2 <= MaxRenders THEN c + 2 ELSE MaxRenders

\* one call of render(): one more pass
RenderPass(c) == IF c < MaxRenders THEN c + 1 ELSE c

\* the handle of the child a render of instance i creates, with mounted flag m
NewChild(i, m) == IF m /\ node[i] = Null THEN Deliverable ELSE {Null}

\* render() of instance i with mounted flag m and prop id, and the commit of
\* its child, r being ClassComponent.refs before it.  #registerRef is a class
\* field, so the ref callback is the same function in every render and fires
\* only when the child goes away (with null) and when a child is created
\* (with its handle n).
Render(i, m, id, n, r) ==
    /\ renders' = RenderPass(renders)
    /\ IF ~m THEN
           /\ node' = [node EXCEPT ![i] = Null]
           /\ refs' = RegisterRefMap(r, id, Null)
           /\ deco' = RegisterRefDeco(deco, i, id, Null)
           /\ used' = used
       ELSE IF node[i] # Null THEN
           /\ refs' = r
           /\ UNCHANGED <<node, deco, used>>
       ELSE
           /\ node' = [node EXCEPT ![i] = n]
           /\ refs' = RegisterRefMap(r, id, n)
           /\ deco' = RegisterRefDeco(deco, i, id, n)
           /\ used' = n

\* this.setState({ isMounted: m }) of instance i, r being ClassComponent.refs
\* before it: the state changes and the instance renders again, unless it was
\* torn down, when nothing happens
SetState(i, m, r) ==
    IF status[i] = "attached"
    THEN /\ isMounted' = [isMounted EXCEPT ![i] = m]
         /\ \E n \in NewChild(i, m) : Render(i, m, propId[i], n, r)
    ELSE /\ refs' = r
         /\ UNCHANGED <<isMounted, node, deco, used, renders>>

\* D1 before any of its instances is rendered: its own new Map, no instance
D1Init ==
    [refs |-> EmptyMap, status |-> "new", propId |-> "", isMounted |-> TRUE,
     node |-> Null, deco |-> EmptyMap]

\* no instance yet, nothing registered, nothing logged
InitRest ==
    /\ refs = EmptyMap
    /\ status = [i \in Instances |-> "new"]
    /\ propId = [i \in Instances |-> ""]
    /\ isMounted = [i \in Instances |-> TRUE]
    /\ node = [i \in Instances |-> Null]
    /\ deco = EmptyMap
    /\ used = 0
    /\ console = 0
    /\ renders = 0
    /\ held = ProxyComponent
    /\ d1 = D1Init

\* CreateFromFC(functionComponent): { idPropName = 'id', prefix = '$' } = {}
Init ==
    /\ prefix = "$"
    /\ ids = IdsUndefined
    /\ InitRest

\* CreateFromFC(functionComponent, { ids, prefix })
InitOptions ==
    /\ prefix \in Prefixes
    /\ ids \in IdsOptions
    /\ InitRest

\* the framework inserts instance i with identifier prop id: constructor
\* (state = { isMounted: true }), first render, and the child's handle n
\* reaches #registerRef
Attach(i, id, n) ==
    /\ status[i] = "new"
    /\ \A j \in Instances : j < i => status[j] # "new"
    /\ status' = [status EXCEPT ![i] = "attached"]
    /\ propId' = [propId EXCEPT ![i] = id]
    /\ Render(i, TRUE, id, n, refs)
    /\ UNCHANGED <<prefix, ids, isMounted, console, held, d1>>

\* the framework removes instance i from the tree: componentWillUnmount, then
\* the child goes away and #registerRef(null) fires.  Nothing reads the props
\* and the state of the instance afterwards: they are reset, so that equal
\* program states are equal states of the model.
Detach(i) ==
    /\ status[i] = "attached"
    /\ status' = [status EXCEPT ![i] = "torn"]
    /\ refs' = RegisterRefMap(WillUnmountMap(refs, propId[i]), propId[i], Null)
    /\ node' = [node EXCEPT ![i] = Null]
    /\ propId' = [propId EXCEPT ![i] = ""]
    /\ isMounted' = [isMounted EXCEPT ![i] = TRUE]
    /\ UNCHANGED <<prefix, ids, deco, used, console, renders, held, d1>>

\* the parent re-renders instance i with another identifier prop: render()
\* runs with the new props
SetProp(i, id) ==
    /\ status[i] = "attached"
    /\ id # propId[i]
    /\ propId' = [propId EXCEPT ![i] = id]
    /\ \E n \in NewChild(i, isMounted[i]) : Render(i, isMounted[i], id, n, refs)
    /\ UNCHANGED <<prefix, ids, status, isMounted, console, held, d1>>

\* external code calls h.mount()
CallMount(h) ==
    /\ MapHas(deco, h)
    /\ SetState(deco[h].owner, TRUE, MountMap(refs, h))
    /\ UNCHANGED <<prefix, ids, status, propId, console, held, d1>>

\* external code calls h.unMount()
CallUnMount(h) ==
    /\ MapHas(deco, h)
    /\ SetState(deco[h].owner, FALSE, UnMountMap(refs, h))
    /\ UNCHANGED <<prefix, ids, status, propId, console, held, d1>>

\* external code calls h.forceRerender(): setState({ update: Math.random() })
CallForceRerender(h) ==
    /\ MapHas(deco, h)
    /\ SetState(deco[h].owner, isMounted[deco[h].owner], refs)
    /\ UNCHANGED <<prefix, ids, status, propId, console, held, d1>>

\* external code reads property prop of the wrapped definition; a read that
\* throws changes nothing
Read(prop) ==
    /\ console + ProxyGet(prop).logs <= MaxLogs
    /\ console' = console + ProxyGet(prop).logs
    /\ UNCHANGED <<prefix, ids, refs, status, propId, isMounted, node, deco,
                   used, renders, held, d1>>

\* external code calls W.setIdType() and holds the result as W from then on
CallSetIdType ==
    /\ held = ProxyComponent
    /\ ProxyGet("setIdType").val = SetIdTypeVal
    /\ held' = SetIdTypeCall
    /\ UNCHANGED <<prefix, ids, refs, status, propId, isMounted, node, deco,
                   used, console, renders, d1>>

\* --------------------------------------------------------------- definition D1
\* one Map for all the definitions
ClassOfShared(d) == "W"

\* the definition whose Map `ClassComponent.refs` names in the code of
\* definition d, d being "W", the definition the instances and the reads
\* above belong to, or "D1", the result of another call of CreateFromFC: the
\* class and its static Map are made inside the call, once for each call
ClassOf(d) == d

\* ClassComponent.refs, read in the code of definition d
RefsOf(d) == IF ClassOf(d) = "W" THEN refs ELSE d1.refs

\* the code of definition d leaves m in ClassComponent.refs, o being the
\* instance of D1 after the step
StoreRefs(d, m, o) ==
    /\ refs' = IF ClassOf(d) = "W" THEN m ELSE refs
    /\ d1' = IF ClassOf(d) = "W" THEN o ELSE [o EXCEPT !.refs = m]

\* render() of the instance o of D1 with mounted flag m, and the commit of
\* its child n, r being ClassComponent.refs before it
D1Render(o, m, n, r) ==
    /\ renders' = RenderPass(renders)
    /\ IF ~m THEN
           /\ StoreRefs("D1", RegisterRefMap(r, o.propId, Null),
                        [o EXCEPT !.isMounted = m, !.node = Null])
           /\ used' = used
       ELSE IF o.node # Null THEN
           /\ StoreRefs("D1", r, [o EXCEPT !.isMounted = m])
           /\ used' = used
       ELSE
           /\ StoreRefs("D1", RegisterRefMap(r, o.propId, n),
                        [o EXCEPT !.isMounted = m, !.node = n,
                                  !.deco = RegisterRefDeco(@, 1, o.propId, n)])
           /\ used' = n

\* this.setState({ isMounted: m }) of the instance of D1
D1SetState(m, r) ==
    IF d1.status = "attached"
    THEN \E n \in (IF m /\ d1.node = Null THEN Deliverable ELSE {Null}) :
             D1Render(d1, m, n, r)
    ELSE /\ StoreRefs("D1", r, d1)
         /\ UNCHANGED <<used, renders>>

\* the framework inserts the instance of D1 with identifier prop id
D1Attach(id, n) ==
    /\ d1.status = "new"
    /\ D1Render([d1 EXCEPT !.status = "attached", !.propId = id], TRUE, n,
                RefsOf("D1"))
    /\ UNCHANGED <<prefix, ids, status, propId, isMounted, node, deco,
                   console, held>>

\* the framework removes the instance of D1 from the tree
D1Detach ==
    /\ d1.status = "attached"
    /\ StoreRefs("D1", WillUnmountMap(RefsOf("D1"), d1.propId),
                 [d1 EXCEPT !.status = "torn", !.node = Null, !.propId = "",
                            !.isMounted = TRUE])
    /\ UNCHANGED <<prefix, ids, status, propId, isMounted, node, deco,
                   used, console, renders, held>>

\* external code calls h.mount() on a handle of the instance of D1
D1Mount(h) ==
    /\ MapHas(d1.deco, h)
    /\ D1SetState(TRUE, IF h # Null /\ d1.deco[h].id # ""
                        THEN MapSet(RefsOf("D1"), d1.deco[h].id, h)
                        ELSE RefsOf("D1"))
    /\ UNCHANGED <<prefix, ids, status, propId, isMounted, node, deco,
                   console, held>>

\* external code calls h.unMount() on a handle of the instance of D1
D1UnMount(h) ==
    /\ MapHas(d1.deco, h)
    /\ D1SetState(FALSE, IF h # Null /\ d1.deco[h].id # ""
                         THEN MapDelete(RefsOf("D1"), d1.deco[h].id)
                         ELSE RefsOf("D1"))
    /\ UNCHANGED <<prefix, ids, status, propId, isMounted, node, deco,
                   console, held>>

\* --------------------------------------------------------------- behaviours
Next ==
    \/ \E i \in Instances, id \in IdVals, n \in Deliverable : Attach(i, id, n)
    \/ \E i \in Instances : Detach(i)
    \/ \E i \in Instances, id \in IdVals : SetProp(i, id)
    \/ \E h \in Handles : CallMount(h)
    \/ \E h \in Handles : CallUnMount(h)
    \/ \E h \in Handles : CallForceRerender(h)
    \/ \E prop \in ReadProps : Read(prop)

Spec == Init /\ [][Next]_vars

\* the definitions of every configuration, their instances keeping the
\* identifier prop they were attached with
NextOptions ==
    \/ \E i \in Instances, id \in IdVals, n \in Deliverable : Attach(i, id, n)
    \/ \E i \in Instances : Detach(i)
    \/ \E h \in Handles : CallMount(h)
    \/ \E h \in Handles : CallUnMount(h)
    \/ \E prop \in ReadKeys : Read(prop)
    \/ CallSetIdType

SpecOptions == InitOptions /\ [][NextOptions]_vars

\* CreateFromFC(functionComponent, { ids, prefix: '' })
InitBare ==
    /\ prefix = ""
    /\ ids \in IdsOptions
    /\ InitRest

\* the definitions with the empty prefix, whose instances may have the name
\* of a static member or the reserved name as identifier prop
NextBare ==
    \/ \E i \in Instances, id \in BareIds, n \in Deliverable : Attach(i, id, n)
    \/ \E i \in Instances : Detach(i)
    \/ \E h \in Handles : CallMount(h)
    \/ \E h \in Handles : CallUnMount(h)
    \/ \E prop \in ReadProps : Read(prop)

SpecBare == InitBare /\ [][NextBare]_vars

\* two definitions with the default options side by side, each with its
\* instances
NextTwo ==
    \/ \E i \in Instances, id \in IdVals, n \in Deliverable : Attach(i, id, n)
    \/ \E i \in Instances : Detach(i)
    \/ \E h \in Handles : CallMount(h)
    \/ \E h \in Handles : CallUnMount(h)
    \/ \E prop \in ReadProps : Read(prop)
    \/ \E id \in IdVals, n \in Deliverable : D1Attach(id, n)
    \/ D1Detach
    \/ \E h \in Handles : D1Mount(h)
    \/ \E h \in Handles : D1UnMount(h)

SpecTwo == Init /\ [][NextTwo]_vars

TypeOK ==
    /\ prefix \in Prefixes
    /\ ids \in IdsOptions
    /\ DOMAIN refs \subseteq BareIds
    /\ MapValues(refs) \subseteq Handles
    /\ status \in [Instances -> {"new", "attached", "torn"}]
    /\ propId \in [Instances -> BareIds]
    /\ isMounted \in [Instances -> BOOLEAN]
    /\ node \in [Instances -> Handles \cup {Null}]
    /\ DOMAIN deco \subseteq 1..used
    /\ used \in 0..MaxHandles
    /\ console \in 0..MaxLogs
    /\ renders \in 0..MaxRenders
    /\ held \in {ProxyComponent, ClassComponent}
    /\ d1.status \in {"new", "attached", "torn"}
    /\ d1.propId \in IdVals
    /\ d1.node \in Handles \cup {Null}
    /\ DOMAIN d1.refs \subseteq IdVals
    /\ MapValues(d1.refs) \subseteq Handles
\* --------------------------------------------------------------- claims
\* instance i is in the tree
InTree(i) == status[i] = "attached"

\* instance i is in the tree, its child exposes a handle and its rendering is
\* not suppressed
Live(i) == InTree(i) /\ node[i] # Null /\ isMounted[i]

\* h is a decorated handle and i the instance whose #registerRef decorated it
DecoratedBy(h, i) == MapHas(deco, h) /\ deco[h].owner = i

\* C1: whenever an instance with identifier prop X is in the tree with a
\* non-null handle and rendering not suppressed, refs.get(X) and a read of
\* `<prefix>X` both return the decorated handle of such an instance
C1_MountedIsReachable ==
    \A i \in Instances :
        (Live(i) /\ propId[i] # "") =>
            \E j \in Instances :
                /\ Live(j) /\ propId[j] = propId[i]
                /\ DecoratedBy(node[j], j)
                /\ RefsGet(propId[i]) = RefVal(node[j])
                /\ ProxyGet(prefix \o propId[i]).val = RefVal(node[j])

\* C2: every Registry entry is the decorated handle of an instance that is
\* attached, not torn down and not render-suppressed
C2_EntriesAreLive ==
    \A k \in DOMAIN refs :
        \E i \in Instances :
            /\ DecoratedBy(refs[k], i)
            /\ InTree(i)
            /\ isMounted[i]
\* h is a decorated handle whose instance is in the tree and still has the
\* identifier prop it had when h was registered
HandleOfX(h) ==
    /\ MapHas(deco, h)
    /\ InTree(deco[h].owner)
    /\ propId[deco[h].owner] = deco[h].id

AfterUnMount(h) ==
    /\ ~MapHas(refs, deco[h].id)
    /\ InTree(deco[h].owner) =>
           (~isMounted[deco[h].owner] /\ node[deco[h].owner] = Null)

\* what external code and the framework can observe: everything but the
\* number of render passes that ran
observable == <<prefix, ids, refs, status, propId, isMounted, node,
                deco, used, console, held, d1>>

\* C4: unMount() through h leaves no entry for its identifier and the
\* instance render-suppressed, and unMount() called in the state an unMount()
\* left changes nothing that can be observed
C4_UnMountIdempotent ==
    [][\A h \in Handles :
        CallUnMount(h) =>
            /\ AfterUnMount(h)'
            /\ AfterUnMount(h) => UNCHANGED observable]_vars

\* C4 witness: an instance in the tree was unmounted through its handle while
\* another instance is registered
C4_Witness ==
    \E h \in DOMAIN deco :
        /\ InTree(deco[h].owner)
        /\ AfterUnMount(h)
        /\ \E k \in DOMAIN refs : deco[refs[k]].owner # deco[h].owner

\* C5: mount() on an instance that is Rendering-Active leaves the whole
\* Registry and the mounted flag unchanged
C5_MountOfMountedNoEffect ==
    [][\A h \in Handles :
        (MapHas(deco, h) /\ Live(deco[h].owner) /\ CallMount(h)) =>
            (refs' = refs /\ isMounted' = isMounted)]_vars

\* instance i is in the tree and the Registry holds its handle under x
RegisteredUnder(i, x) == InTree(i) /\ MapHas(refs, x) /\ DecoratedBy(refs[x], i)

\* a detach, mount() or unMount() of instance i
OpOf(i) ==
    \/ Detach(i)
    \/ \E h \in Handles : DecoratedBy(h, i) /\ (CallMount(h) \/ CallUnMount(h))

\* C6: with an instance registered under y, no attach under another
\* identifier x, and no detach, mount() or unMount() of the instance
\* registered under x, changes refs.get(y), and the entries of x and y are
\* different handles
C6_NoCrossTalk ==
    [][\A i, j \in Instances : \A x, y \in IdVals :
        (/\ i # j /\ x # y /\ x # ""
         /\ RegisteredUnder(j, y)
         /\ \/ RegisteredUnder(i, x) /\ OpOf(i)
            \/ \E n \in Handles : Attach(i, x, n))
        => (/\ MapHas(refs, x) => refs[x] # refs[y]
            /\ MapHas(refs', y) /\ refs'[y] = refs[y])]_vars

\* C7: when an instance attaches with identifier x, refs.get(x) is its
\* handle, and the handle registered under x before is in the Registry no more
C7_LastAttachWins ==
    [][\A i \in Instances, id \in IdVals, n \in Handles :
        (Attach(i, id, n) /\ id # "") =>
            /\ MapHas(refs', id) /\ refs'[id] = n
            /\ MapHas(refs, id) => refs[id] \notin MapValues(refs')]_vars

\* C7 witness: two instances in the tree share an identifier, and the
\* Registry holds the handle of the one attached last
C7_Witness ==
    \E i, j \in Instances :
        /\ i < j /\ Live(i) /\ Live(j)
        /\ propId[i] # "" /\ propId[i] = propId[j]
        /\ RefsGet(propId[j]) = RefVal(node[j])
        /\ DecoratedBy(node[i], i)
        /\ node[i] \notin MapValues(refs)

\* C8: an attach callback with a null handle or with an absent or empty
\* identifier leaves the Registry and the handle as they are and logs
\* nothing; the Registry never has the empty string as a key nor null as a
\* value
C8_SilentOptOut ==
    /\ [](/\ "" \notin DOMAIN refs
          /\ Null \notin MapValues(refs)
          /\ \A i \in Instances, id \in IdVals, n \in Handles \cup {Null} :
                (n = Null \/ id = "") =>
                    /\ RegisterRefMap(refs, id, n) = refs
                    /\ RegisterRefDeco(deco, i, id, n) = deco)
    /\ [][\A i \in Instances, n \in Handles :
            Attach(i, "", n) =>
                (refs' = refs /\ deco' = deco /\ console' = console)]_vars

\* C8 witness: an instance without identifier is in the tree, its handle
\* undecorated, next to a registered one
C8_Witness ==
    \E i \in Instances :
        /\ Live(i) /\ propId[i] = ""
        /\ ~MapHas(deco, node[i])
        /\ node[i] \notin MapValues(refs)
        /\ refs # EmptyMap
\* the identifiers a configured ids option declares: the elements of the
\* array, the values of the object
Universe == {ids.entries[k][2] : k \in DOMAIN ids.entries}

\* C9 as stated: with a non-empty prefix and an open universe, a read of
\* `<prefix><id>` returns the Registry entry of id when there is one, and an
\* absent result otherwise, and logs nothing
C9_PrefixRoundTrip ==
    (prefix # "" /\ ids = IdsUndefined) =>
        \A id \in ReadIds :
            /\ ProxyGet(prefix \o id).logs = 0
            /\ IF MapHas(refs, id)
               THEN ProxyGet(prefix \o id).val = RefVal(refs[id])
               ELSE Absent(ProxyGet(prefix \o id).val)

\* C9 as amended: the same, for every `<prefix><id>` but the reserved name
\* setIdType
C9_PrefixRoundTripButSetIdType ==
    (prefix # "" /\ ids = IdsUndefined) =>
        \A id \in ReadIds :
            prefix \o id # "setIdType" =>
                /\ ProxyGet(prefix \o id).logs = 0
                /\ IF MapHas(refs, id)
                   THEN ProxyGet(prefix \o id).val = RefVal(refs[id])
                   ELSE Absent(ProxyGet(prefix \o id).val)

\* C9 witness: with a non-empty prefix and an open universe, one identifier
\* is registered and read back, another is not registered
C9_Witness ==
    /\ prefix # "" /\ ids = IdsUndefined
    /\ MapHas(refs, "a") /\ ~MapHas(refs, "IdType")
    /\ ProxyGet(prefix \o "a").val = RefVal(refs["a"])
    /\ ProxyGet(prefix \o "c").val = NullVal

\* C10 as stated: with a non-empty prefix and a closed universe, a read of
\* `<prefix><id>` logs one diagnostic and returns an absent result when id is
\* outside the universe, and logs nothing and returns the Registry entry or
\* an absent result when id is inside
C10_ClosedUniverse ==
    (prefix # "" /\ ids # IdsUndefined) =>
        \A id \in ReadIds :
            IF id \notin Universe
            THEN /\ ProxyGet(prefix \o id).logs = 1
                 /\ Absent(ProxyGet(prefix \o id).val)
            ELSE /\ ProxyGet(prefix \o id).logs = 0
                 /\ IF MapHas(refs, id)
                    THEN ProxyGet(prefix \o id).val = RefVal(refs[id])
                    ELSE Absent(ProxyGet(prefix \o id).val)

\* C10 as amended: the same, for every `<prefix><id>` but the reserved name
\* setIdType
C10_ClosedUniverseButSetIdType ==
    (prefix # "" /\ ids # IdsUndefined) =>
        \A id \in ReadIds :
            prefix \o id # "setIdType" =>
                IF id \notin Universe
                THEN /\ ProxyGet(prefix \o id).logs = 1
                     /\ Absent(ProxyGet(prefix \o id).val)
                ELSE /\ ProxyGet(prefix \o id).logs = 0
                     /\ IF MapHas(refs, id)
                        THEN ProxyGet(prefix \o id).val = RefVal(refs[id])
                        ELSE Absent(ProxyGet(prefix \o id).val)

\* C10 witness: with a non-empty prefix and a key/value universe, an instance
\* is registered under a key of the object that is no value of it, a read of
\* it was rejected and logged, and an identifier inside the universe is read
\* back
C10_Witness ==
    /\ prefix # "" /\ ids = IdsObject
    /\ MapHas(refs, "IdType") /\ MapHas(refs, "a")
    /\ ProxyGet(prefix \o "a").val = RefVal(refs["a"])
    /\ ProxyGet("$IdType") = [val |-> UndefinedVal, logs |-> 1]
    /\ console = 1

\* the property names that are not the reserved name of the type selector
BareNames == ReadProps \ {"setIdType"}

\* C11: with the empty prefix, a read of a bare name P returns the Registry
\* entry of P when there is one and the static member named P otherwise, and
\* a read of the name of a static member returns that static member
C11_EmptyPrefixMode ==
    prefix = "" =>
        \A P \in BareNames :
            /\ IF MapHas(refs, P)
               THEN ProxyGet(P).val = RefVal(refs[P])
               ELSE ProxyGet(P).val = StaticMember(P)
            /\ P \in StaticNames => ProxyGet(P).val = StaticMember(P)

\* C12: in every configuration and every state, a read of `refs` returns the
\* Registry itself
C12_RefsIsRegistry == ProxyGet("refs").val = RefsMapVal

\* C13: a read of setIdType yields the type selector, whatever the prefix and
\* the Registry hold, and logs nothing; its call returns the wrapped
\* definition itself and changes no state
C13_SetIdTypeFirst ==
    /\ [](/\ ProxyGet("setIdType") = [val |-> SetIdTypeVal, logs |-> 0]
          /\ held = ProxyComponent)
    /\ [][CallSetIdType => UNCHANGED vars]_vars

\* C13 witness: the prefix and a registered identifier spell setIdType, and
\* the read yields the selector of the definition external code holds
C13_Witness ==
    /\ prefix = "set" /\ MapHas(refs, "IdType")
    /\ \E i \in Instances : Live(i) /\ refs["IdType"] = node[i]
    /\ ProxyGet(prefix \o "IdType").val = SetIdTypeVal
    /\ held = ProxyComponent

InjectedNames == {"getParentName", "mount", "unMount", "forceRerender"}

\* the members the child behind handle h exposes before #registerRef sees
\* it: every child exposes click, every second child a member named mount too
OwnNames(h) == IF h % 2 = 0 THEN {"click", "mount"} ELSE {"click"}

\* the value of member name of handle h: the closure #registerRef assigned
\* ("injected"), the value the child gave it ("own"), or none
Member(h, name) ==
    IF MapHas(deco, h) /\ name \in InjectedNames THEN "injected"
    ELSE IF name \in OwnNames(h) THEN "own"
    ELSE "undefined"

\* C15: every Registry value is the handle object its child exposed,
\* decorated in place: it carries mount, unMount, forceRerender and
\* getParentName, and every member the child gave it still has the child's
\* value, also when the child had members with those names
C15_DecorationKeepsMembers ==
    \A k \in DOMAIN refs :
        /\ MapHas(deco, refs[k])
        /\ \A name \in InjectedNames : Member(refs[k], name) = "injected"
        /\ \A name \in OwnNames(refs[k]) : Member(refs[k], name) = "own"

\* C16: a detach of an instance whose identifier prop is X leaves no entry
\* for X, whoever registered it and whatever the state of the instance; a
\* detach of an instance without identifier leaves the Registry as it is
C16_DetachRemoves ==
    [][\A i \in Instances :
        Detach(i) =>
            /\ propId[i] # "" => ~MapHas(refs', propId[i])
            /\ propId[i] = "" => refs' = refs]_vars

\* C16 witness: an instance was detached, and the identifier of an instance
\* that is still rendering its decorated child has no entry
C16_Witness ==
    \E i, j \in Instances :
        /\ status[i] = "torn"
        /\ Live(j) /\ propId[j] = "a"
        /\ DecoratedBy(node[j], j) /\ deco[node[j]].id = "a"
        /\ ~MapHas(refs, "a")

\* C17: an instance starts with the mounted flag true and renders nothing
\* exactly when the flag is false; the flag of an instance in the tree
\* changes only by mount() and unMount() through one of its handles; after
\* teardown no mount(), unMount() or forceRerender() through a retained
\* handle changes the instance or the Registry
C17_StateMachine ==
    /\ [](\A i \in Instances :
            /\ status[i] = "new" => isMounted[i]
            /\ InTree(i) => (node[i] = Null <=> ~isMounted[i]))
    /\ [][/\ \A i \in Instances :
                (InTree(i) /\ InTree(i)' /\ isMounted'[i] # isMounted[i]) =>
                    \E h \in Handles :
                        /\ DecoratedBy(h, i)
                        /\ CallMount(h) \/ CallUnMount(h)
          /\ \A h \in Handles :
                (/\ MapHas(deco, h)
                 /\ status[deco[h].owner] = "torn"
                 /\ CallMount(h) \/ CallUnMount(h) \/ CallForceRerender(h))
                => UNCHANGED <<refs, status, isMounted, node>>]_vars

\* the handles the children of the instance of D1 exposed
D1Handles == (DOMAIN d1.deco) \cup ({d1.node} \ {Null})

\* the handles the children of the instances of W exposed
WHandles == (DOMAIN deco) \cup ({node[i] : i \in Instances} \ {Null})

\* an attach, detach, mount() or unMount() of the instance of D1
D1Op ==
    \/ \E id \in IdVals, n \in Handles : D1Attach(id, n)
    \/ D1Detach
    \/ \E h \in Handles : D1Mount(h) \/ D1UnMount(h)

\* an attach, detach, mount() or unMount() of an instance of W
WOp ==
    \/ \E i \in Instances, id \in IdVals, n \in Handles : Attach(i, id, n)
    \/ \E i \in Instances : Detach(i)
    \/ \E h \in Handles : CallMount(h) \/ CallUnMount(h)

\* C18: no attach, detach, mount() or unMount() of an instance of one
\* definition changes the Registry of the other, no Registry holds a handle
\* of the other definition's instances, and no read on W returns one
C18_Isolated ==
    /\ [](/\ MapValues(refs) \cap D1Handles = {}
          /\ MapValues(d1.refs) \cap WHandles = {}
          /\ \A prop \in ReadProps :
                ProxyGet(prop).val.kind = "ref" =>
                    ProxyGet(prop).val.h \notin D1Handles)
    /\ [][/\ D1Op => refs' = refs
          /\ WOp => d1.refs' = d1.refs]_vars

\* C18 witness: both definitions have an instance registered under the same
\* identifier, each Registry holding its own
C18_Witness ==
    /\ MapHas(refs, "a") /\ MapHas(d1.refs, "a")
    /\ refs["a"] \in WHandles /\ d1.refs["a"] \in D1Handles
    /\ refs["a"] # d1.refs["a"]
    /\ ProxyGet("$a").val = RefVal(refs["a"])

\* instance i renders its child and is registered under its identifier prop,
\* which the configured universe does not hold
RegisteredOutside(i) ==
    /\ Live(i) /\ propId[i] # "" /\ propId[i] \notin Universe
    /\ RefsGet(propId[i]) = RefVal(node[i])

\* C19 as stated: with a closed universe, an instance attached with an
\* identifier X outside it is registered, and a read of `<prefix>X` logs one
\* diagnostic and returns an absent result
C19_CheckOnReadOnly ==
    ids # IdsUndefined =>
        \A i \in Instances :
            RegisteredOutside(i) =>
                /\ ProxyGet(prefix \o propId[i]).logs = 1
                /\ Absent(ProxyGet(prefix \o propId[i]).val)

\* C19 as amended: an attach with an identifier X outside the closed universe
\* registers the handle and logs nothing; with a non-empty prefix a read of
\* `<prefix>X`, unless it spells setIdType, logs one diagnostic and returns
\* an absent result
C19_CheckOnPrefixedReadOnly ==
    /\ []((ids # IdsUndefined /\ prefix # "") =>
            \A i \in Instances :
                (RegisteredOutside(i) /\ prefix \o propId[i] # "setIdType") =>
                    /\ ProxyGet(prefix \o propId[i]).logs = 1
                    /\ Absent(ProxyGet(prefix \o propId[i]).val))
    /\ [][\A i \in Instances, id \in IdVals, n \in Handles :
            (/\ ids # IdsUndefined /\ id # "" /\ id \notin Universe
             /\ Attach(i, id, n))
            => /\ console' = console
               /\ MapHas(refs', id) /\ refs'[id] = n
               /\ MapHas(deco', n)]_vars

\* C19 witness: with prefix $ and a key/value universe, an instance is
\* registered under an identifier outside it, and the read of it was logged
C19_Witness ==
    /\ prefix = "$" /\ ids = IdsObject
    /\ \E i \in Instances : RegisteredOutside(i) /\ propId[i] = "IdType"
    /\ ProxyGet("$IdType") = [val |-> UndefinedVal, logs |-> 1]
    /\ console = 1

\* C20: the key of every Registry entry is the current identifier prop of
\* the instance in the tree that owns the handle
C20_KeyIsCurrentProp ==
    \A k \in DOMAIN refs :
        InTree(deco[refs[k]].owner) => propId[deco[refs[k]].owner] = k

\* instance i is in the tree and render-suppressed after unMount() through
\* a handle registered under its identifier prop
Suppressed(i) ==
    /\ InTree(i) /\ ~isMounted[i] /\ propId[i] # ""
    /\ \E h \in DOMAIN deco : deco[h] = [owner |-> i, id |-> propId[i]]

\* C21 as stated: while an instance with identifier X is render-suppressed,
\* refs.get(X) and a read of `<prefix>X` return a handle of that instance, on
\* which mount() can be called
C21_RemountThroughLookup ==
    \A i \in Instances :
        Suppressed(i) =>
            /\ MapHas(refs, propId[i])
            /\ DecoratedBy(refs[propId[i]], i)
            /\ ProxyGet(prefix \o propId[i]).val = RefVal(refs[propId[i]])

\* C21 as amended: unMount() through a handle h of an instance with
\* identifier X leaves refs.get(X) and the read of `<prefix>X` absent, so the
\* lookup surface yields no handle for X; mount() through the handle h kept
\* from before makes the render-suppressed instance render its child again
C21_RemountThroughRetainedHandle ==
    /\ [](\A id \in IdVals \ {""} :
            ~MapHas(refs, id) => Absent(ProxyGet(prefix \o id).val))
    /\ [][\A h \in Handles :
            /\ (HandleOfX(h) /\ CallUnMount(h)) => ~MapHas(refs', deco[h].id)
            /\ (HandleOfX(h) /\ ~isMounted[deco[h].owner] /\ CallMount(h)) =>
                   /\ isMounted'[deco[h].owner]
                   /\ node'[deco[h].owner] # Null]_vars

\* C21 witness: an instance that was mounted again through a retained handle
\* is render-suppressed for the second time, and the lookups of its
\* identifier are absent
C21_Witness ==
    \E i \in Instances :
        /\ Suppressed(i) /\ propId[i] = "a" /\ node[i] = Null
        /\ \E h, g \in DOMAIN deco :
               h # g /\ deco[h] = deco[g] /\ deco[h] = [owner |-> i, id |-> "a"]
        /\ ~MapHas(refs, "a")
        /\ ProxyGet("$a").val = NullVal

\* the static surface of the definition: the static members of the class
\* and the type selector the get trap adds
StaticSurface(P) == IF P \in ReservedNames THEN SetIdTypeVal ELSE StaticMember(P)

\* C22 as stated: with the empty prefix and a closed universe no read logs a
\* diagnostic, and a read of a name P outside the universe returns the
\* Registry entry of P when there is one and the static member named P
\* otherwise
C22_EmptyPrefixIgnoresUniverse ==
    (prefix = "" /\ ids # IdsUndefined) =>
        \A P \in ReadProps :
            /\ ProxyGet(P).logs = 0
            /\ P \notin Universe =>
                   IF MapHas(refs, P)
                   THEN ProxyGet(P).val = RefVal(refs[P])
                   ELSE ProxyGet(P).val = StaticSurface(P)

\* C22 as amended: the same, for every name but the reserved name
\* setIdType, whose read returns the type selector also when an instance is
\* registered under it
C22_EmptyPrefixIgnoresUniverseButSetIdType ==
    (prefix = "" /\ ids # IdsUndefined) =>
        /\ ProxyGet("setIdType") = [val |-> SetIdTypeVal, logs |-> 0]
        /\ \A P \in BareNames :
            /\ ProxyGet(P).logs = 0
            /\ P \notin Universe =>
                   IF MapHas(refs, P)
                   THEN ProxyGet(P).val = RefVal(refs[P])
                   ELSE ProxyGet(P).val = StaticMember(P)

\* C22 witness: with the empty prefix and a key/value universe, an instance
\* is registered under an identifier outside the universe and read back,
\* another name outside it yields nothing, and nothing was logged
C22_Witness ==
    /\ prefix = "" /\ ids = IdsObject
    /\ "IdType" \notin Universe /\ "c" \notin Universe
    /\ \E i \in Instances : Live(i) /\ RefsGet("IdType") = RefVal(node[i])
    /\ ProxyGet("IdType") = [val |-> RefVal(refs["IdType"]), logs |-> 0]
    /\ ProxyGet("c") = [val |-> UndefinedVal, logs |-> 0]
    /\ console = 0

\* C23: for every property key, string or symbol, every prefix and every
\* Registry content, a read completes and yields a Registry entry, a member
\* of the static surface or an absent result
C23_ReadNeverThrows ==
    \A key \in ReadKeys :
        ProxyGet(key).val.kind \in
            {"ref", "refsMap", "static", "setIdType", "null", "undefined"}
====
